---------------------------- MODULE Spec2Model ----------------------------
(***************************************************************************)
(* Model of stringslib (src/src/strings.c): the length-prefixed string     *)
(* buffer (string_t: cap, len, data[]) and the operations built on it.     *)
(*                                                                         *)
(* Memory is modelled byte by byte.  A buffer is a record                  *)
(*   st   : "live", "null" (the handle is NULL) or "freed" (the handle     *)
(*          still holds the address of storage that free() released),      *)
(*   cap  : the value of the header field cap,                             *)
(*   len  : the value of the header field len,                             *)
(*   data : the bytes of the allocation after the header; Len(data) is the *)
(*          number of data bytes malloc/realloc really gave, which is the  *)
(*          allocated capacity + 1.                                        *)
(* C offset i of data is data[i + 1].  A byte is 0 (the terminator), a     *)
(* character code, or U: a byte whose value is unspecified because it was  *)
(* never written since allocation or lies outside the allocation.          *)
(*                                                                         *)
(* Every operation is an operator returning the set of outcomes the C code *)
(* can produce (more than one where the code branches on a byte it reads   *)
(* outside the data region).  An outcome carries oob = TRUE when the       *)
(* operation read or wrote outside the data region of a buffer; bytes      *)
(* written there are lost, bytes read from there are U.  The behaviour of  *)
(* the program after such an access is undefined, so no later state is     *)
(* modelled: the state in which fault is TRUE has no successor.            *)
(***************************************************************************)
EXTENDS Integers, Sequences, FiniteSets, TLC

(* ------------------------------ bounds --------------------------------- *)
MaxCap == 2        \* capacities given to string_new / string_resize: 0..MaxCap
MaxText == 2       \* raw C strings and formatted texts have 0..MaxText bytes
MaxSteps == 3      \* operations per run
MaxAlloc == 40     \* the allocator refuses a request for more data bytes
MaxPos == 3        \* position arguments: 0..MaxPos, and the length of the buffer
MaxDigits == 3     \* the classified contents have 0..MaxDigits bytes
MaxVersion == 4    \* version arguments of string_hash: 0..MaxVersion

(* ------------------------- program constants --------------------------- *)
\* UINT32_MAX, the largest value of the uint32_t fields cap and len and of
\* every uint32_t position, and the value of STR_ERROR.  The word is kept at
\* 30 bits: TLC's integers are 32-bit signed and x + y must not overflow
\* them.  Every wrap-around of the source happens at 0 - 1 and UINT32_MAX + 1
\* and so happens here at the same operands.
UINT32_MAX == 1073741823
\* sizeof(string_t): two uint32_t fields, the flexible array member adds 0.
HeaderSize == 8
\* sizeof data[0]
BUF_CHR == 1

Word == UINT32_MAX + 1
\* uint32_t arithmetic
U32(x) == x % Word
STR_ERROR == UINT32_MAX

(* ------------------------------- bytes --------------------------------- *)
U == -1                       \* an unspecified byte
NUL == 0
SP == 32                      \* ' '
LA == 97                      \* 'a'
Chars == {SP, LA}             \* the characters inputs are made of

\* <ctype.h> isspace in the C locale
isspace(c) == c = 32 \/ (c >= 9 /\ c <= 13)

RECURSIVE SeqsUpTo(_, _)
SeqsUpTo(S, n) ==
    IF n = 0 THEN {<< >>}
    ELSE LET shorter == SeqsUpTo(S, n - 1)
         IN  shorter \cup {Append(s, c) : s \in {t \in shorter : Len(t) = n - 1}, c \in S}

\* the contents a C string argument can have
Strs == SeqsUpTo(Chars, MaxText)
\* a const char * argument: NULL, or a pointer to a terminated string
NULLSTR == [isNull |-> TRUE, chars |-> << >>]
CStr(s) == [isNull |-> FALSE, chars |-> s]
RawArgs == {NULLSTR} \cup {CStr(s) : s \in Strs}
strlen(raw) == Len(raw.chars)

(* ------------------------------ buffers -------------------------------- *)
NULL == [st |-> "null", cap |-> 0, len |-> 0, data |-> << >>]
FREED == [st |-> "freed", cap |-> 0, len |-> 0, data |-> << >>]
Live(b) == b.st = "live"

\* BUF_MEM(cap) - sizeof(string_t): the data bytes of an allocation, for a
\* size_t argument (no wrap-around)
DataBytes(cap) == (cap + 1) * BUF_CHR
\* BUF_MEM(x) for a uint32_t argument x: x + 1 is computed in 32 bits
BUF_MEM32(x) == HeaderSize + U32(x + 1) * BUF_CHR
BUF_MEM(cap) == HeaderSize + DataBytes(cap)

\* data[i] as the program reads it
Rd(b, i) == IF i >= 0 /\ i < Len(b.data) THEN b.data[i + 1] ELSE U
\* the n bytes at offsets off .. off+n-1 lie inside the data region of b
Inside(b, off, n) == n = 0 \/ (off >= 0 /\ off + n <= Len(b.data))
\* data after  data[i] = c  (lost when i is outside)
Poke(data, i, c) == [k \in 1..Len(data) |-> IF k = i + 1 THEN c ELSE data[k]]
\* dst.data after memcpy(dst->data + doff, src + soff, n), src the bytes of
\* the source region (a byte read outside it is unspecified)
Blit(data, doff, src, soff, n) ==
    [k \in 1..Len(data) |->
        IF k - 1 >= doff /\ k - 1 < doff + n
        THEN LET i == soff + (k - 1 - doff)
             IN  IF i >= 0 /\ i < Len(src) THEN src[i + 1] ELSE U
        ELSE data[k]]

(* ------------------------ Buffer Core (strings.c) ---------------------- *)
\* An outcome of an operation that returns a new buffer: the buffer (NULL
\* for the NULL result) and whether it accessed memory outside a data region.
Made(b, bad) == [new |-> b, oob |-> bad]
\* An outcome of an operation on the caller's handles *to and *from: the
\* handles' buffers afterwards, the value returned, and the oob flag.
Done(t, f, r, bad) == [to |-> t, from |-> f, ret |-> r, oob |-> bad]

\* string_new without the store buf->data[0] = 0
string_new_unterminated(cap, m) ==
    IF ~m \/ DataBytes(cap) > MaxAlloc THEN NULL
    ELSE [st |-> "live", cap |-> U32(cap), len |-> 0,
          data |-> Poke([k \in 1..DataBytes(cap) |-> U], cap, NUL)]

\* malloc(BUF_MEM(cap)) and the four stores of string_new.  m is the
\* allocator's answer (FALSE: it returns NULL); a request above MaxAlloc is
\* always refused.
string_new(cap, m) ==
    IF ~m \/ DataBytes(cap) > MaxAlloc THEN NULL
    ELSE [st |-> "live", cap |-> U32(cap), len |-> 0,
          data |-> Poke(Poke([k \in 1..DataBytes(cap) |-> U], 0, NUL), cap, NUL)]

\* string_new_c: no test of string_new's result before the memcpy
string_new_c(str, m) ==
    IF str.isNull \/ strlen(str) > UINT32_MAX - 1 THEN {Made(NULL, FALSE)}
    ELSE LET buf == string_new(strlen(str), m)
         IN  IF ~Live(buf) THEN {Made(NULL, TRUE)}
             ELSE {Made([buf EXCEPT
                           !.data = Blit(buf.data, 0, str.chars, 0, strlen(str)),
                           !.len = U32(strlen(str))],
                        FALSE)}

\* memcpy(dst, src, n) of whole objects, header first: the header fields
\* when n covers them, then n - HeaderSize data bytes
CopyObject(dst, src, n) ==
    [dst EXCEPT !.cap = IF n >= HeaderSize THEN src.cap ELSE @,
                !.len = IF n >= HeaderSize THEN src.len ELSE @,
                !.data = Blit(@, 0, src.data, 0, n - HeaderSize)]
ObjectInside(dst, src, n) ==
    Inside(dst, 0, n - HeaderSize) /\ Inside(src, 0, n - HeaderSize)

string_dup(buf, m) ==
    IF ~Live(buf) THEN {Made(NULL, FALSE)}
    ELSE LET ret == string_new(buf.cap, m)
         IN  IF ~Live(ret) THEN {Made(NULL, FALSE)}
             ELSE {Made(CopyObject(ret, buf, BUF_MEM32(buf.len)),
                        ~ObjectInside(ret, buf, BUF_MEM32(buf.len)))}

\* realloc(buf, BUF_MEM(newcap)): the first min(old, new) data bytes are
\* kept, the rest is unspecified
Realloc(data, newcap) ==
    [k \in 1..DataBytes(newcap) |-> IF k <= Len(data) THEN data[k] ELSE U]

\* string_resize(&buf, newcap); the value returned is 1 for true, 0 for false
string_resize(buf, newcap, m) ==
    IF ~Live(buf) THEN Done(buf, NULL, 0, FALSE)
    ELSE IF newcap = buf.cap THEN Done(buf, NULL, 1, FALSE)
    ELSE IF ~m \/ DataBytes(newcap) > MaxAlloc THEN Done(buf, NULL, 0, FALSE)
    ELSE LET tmp == [buf EXCEPT !.data = Realloc(@, newcap)]
             cut == IF newcap < buf.len
                    THEN [tmp EXCEPT !.data = Poke(@, newcap, NUL), !.len = U32(newcap)]
                    ELSE tmp
         IN  Done([cut EXCEPT !.cap = U32(newcap)], NULL, 1, FALSE)

\* string_move(&to, &from): free(*from) leaves the caller's handle holding
\* the address of the released storage
string_move(to, from, m) ==
    IF ~Live(to) \/ ~Live(from) THEN Done(to, from, UINT32_MAX, FALSE)
    ELSE LET grow == from.len > to.len
             rs == IF grow THEN string_resize(to, from.cap, m) ELSE Done(to, NULL, 1, FALSE)
             n == BUF_MEM32(from.len)
         IN  IF rs.ret = 0 THEN Done(to, from, UINT32_MAX, FALSE)
             ELSE Done([CopyObject(rs.to, from, n) EXCEPT !.len = from.len],
                       FREED, 0, ~ObjectInside(rs.to, from, n))

\* string_copy(&to, from)
string_copy(to, from, m) ==
    IF ~Live(to) \/ from.isNull THEN Done(to, NULL, UINT32_MAX, FALSE)
    ELSE LET lenf == strlen(from)
             grow == lenf > to.len
             rs == IF grow THEN string_resize(to, BUF_MEM(lenf), m) ELSE Done(to, NULL, 1, FALSE)
             src == Append(from.chars, NUL)
         IN  IF lenf > UINT32_MAX - 1 THEN Done(to, NULL, UINT32_MAX, FALSE)
             ELSE IF rs.ret = 0 THEN Done(to, NULL, UINT32_MAX, FALSE)
             ELSE Done([rs.to EXCEPT !.data = Blit(@, 0, src, 0, lenf + 1),
                                     !.len = U32(lenf)],
                       NULL, 0, ~Inside(rs.to, 0, lenf + 1))

\* string_reset without the store buf->data[0] = 0
string_reset_length_only(buf) ==
    IF ~Live(buf) THEN Done(buf, NULL, 0, FALSE)
    ELSE Done([buf EXCEPT !.len = 0], NULL, 0, FALSE)

\* string_reset(buf)
string_reset(buf) ==
    IF ~Live(buf) THEN Done(buf, NULL, 0, FALSE)
    ELSE Done([buf EXCEPT !.len = 0, !.data = Poke(@, 0, NUL)], NULL, 0, ~Inside(buf, 0, 1))

\* vsnprintf(dst + off, size, fmt, ...) for a text of n bytes: at most size - 1
\* bytes of the text and a terminator are stored (nothing when size = 0)
Vsnprintf(buf, off, size, text) ==
    LET n == Len(text)
        k == IF n < size - 1 THEN n ELSE size - 1
        src == Append(SubSeq(text, 1, k), NUL)
    IN  IF size = 0 THEN buf.data
        ELSE Blit(buf.data, off, src, 0, k + 1)
VsnprintfInside(buf, off, size, text) ==
    size = 0 \/ Inside(buf, off, (IF Len(text) < size - 1 THEN Len(text) ELSE size - 1) + 1)

\* string_append(buf, fmt, ...): fmt is NULL or formats to the text fmt.chars
string_append(buf, fmt) ==
    IF ~Live(buf) \/ fmt.isNull THEN Done(buf, NULL, 0, FALSE)
    ELSE LET spc == U32(buf.cap - buf.len)
             len == strlen(fmt)
             written == len
         IN  IF spc = 0 THEN Done(buf, NULL, 0, FALSE)
             ELSE IF len > spc THEN Done(buf, NULL, 0, FALSE)
             ELSE IF written > spc
                  THEN Done([buf EXCEPT !.data = Poke(Vsnprintf(buf, buf.len, spc + 1, fmt.chars), buf.len, NUL)],
                            NULL, 0, ~VsnprintfInside(buf, buf.len, spc + 1, fmt.chars))
             ELSE Done([buf EXCEPT !.data = Vsnprintf(buf, buf.len, spc + 1, fmt.chars),
                                   !.len = U32(buf.len + written)],
                       NULL, written, ~VsnprintfInside(buf, buf.len, spc + 1, fmt.chars))

\* string_write(buf, fmt, ...)
string_write(buf, fmt) ==
    IF ~Live(buf) \/ fmt.isNull THEN Done(buf, NULL, 0, FALSE)
    ELSE LET cap == buf.cap
             len == strlen(fmt)
             written == len
         IN  IF cap = 0 THEN Done(buf, NULL, 0, FALSE)
             ELSE IF len > cap THEN Done(buf, NULL, 0, FALSE)
             ELSE Done([buf EXCEPT !.data = Vsnprintf(buf, 0, cap + 1, fmt.chars),
                                   !.len = U32(written)],
                       NULL, written, ~VsnprintfInside(buf, 0, cap + 1, fmt.chars))

(* ---------------------- String Algorithms (strings.c) ------------------ *)
\* the program dereferences the NULL that string_new returned
Crash == Made(NULL, TRUE)
Min(x, y) == IF x < y THEN x ELSE y

\* string_left(buf, pos)
string_left(buf, pos, m) ==
    IF ~Live(buf) \/ pos > buf.len THEN {Made(NULL, FALSE)}
    ELSE LET new == string_new(U32(pos + 1), m)
             n == U32(pos + 1)
         IN  IF ~Live(new) THEN {Crash}
             ELSE {Made([new EXCEPT
                           !.data = Poke(Blit(@, 0, buf.data, 0, n), U32(pos + 1), NUL),
                           !.len = U32(pos + 1)],
                        ~Inside(buf, 0, n) \/ ~Inside(new, 0, n) \/ ~Inside(new, U32(pos + 1), 1))}

\* string_right(buf, pos)
string_right(buf, pos, m) ==
    IF ~Live(buf) \/ pos > buf.len THEN {Made(NULL, FALSE)}
    ELSE LET new == string_new(U32(buf.len - pos), m)
             n == U32(buf.len - pos + 1)
         IN  IF ~Live(new) THEN {Crash}
             ELSE {Made([new EXCEPT
                           !.data = Blit(@, 0, buf.data, pos, n),
                           !.len = U32(buf.len - pos)],
                        ~Inside(buf, pos, n) \/ ~Inside(new, 0, n))}

\* string_mid(buf, left, right)
string_mid(buf, left, right, m) ==
    IF ~Live(buf) \/ right > buf.len \/ left > buf.len \/ left > right THEN {Made(NULL, FALSE)}
    ELSE LET new == string_new(U32(right - left), m)
             n == U32(right - left + 1)
         IN  IF ~Live(new) THEN {Crash}
             ELSE {Made([new EXCEPT
                           !.data = Blit(@, 0, buf.data, left - 1, n),
                           !.len = U32(right - left + 1)],
                        ~Inside(buf, left - 1, n) \/ ~Inside(new, 0, n))}

\* string_concat(str1, str2)
string_concat(str1, str2, m) ==
    IF ~Live(str1) \/ ~Live(str2) THEN {Made(NULL, FALSE)}
    ELSE LET new == string_new(U32(str1.len + str2.len), m)
             n2 == U32(str2.len + 1)
             d1 == Blit(new.data, 0, str1.data, 0, str1.len)
             d2 == Blit(d1, str1.len, str2.data, 0, n2)
         IN  IF ~Live(new) THEN {Crash}
             ELSE {Made([new EXCEPT !.data = d2, !.len = U32(str1.len + str2.len)],
                        \/ ~Inside(str1, 0, str1.len) \/ ~Inside(new, 0, str1.len)
                        \/ ~Inside(str2, 0, n2) \/ ~Inside(new, str1.len, n2))}

\* string_insert(buf, str, pos)
string_insert(buf, str, pos, m) ==
    IF ~Live(buf) \/ ~Live(str) \/ pos > buf.len THEN {Made(NULL, FALSE)}
    ELSE LET new == string_new(U32(buf.len + str.len), m)
             n3 == U32((buf.len - pos) + 1)
             d1 == Blit(new.data, 0, buf.data, 0, pos)
             d2 == Blit(d1, pos, str.data, 0, str.len)
             d3 == Blit(d2, pos + str.len, buf.data, pos, n3)
         IN  IF ~Live(new) THEN {Crash}
             ELSE {Made([new EXCEPT !.data = d3, !.len = U32(buf.len + str.len)],
                        \/ ~Inside(buf, 0, pos) \/ ~Inside(new, 0, pos)
                        \/ ~Inside(str, 0, str.len) \/ ~Inside(new, pos, str.len)
                        \/ ~Inside(buf, pos, n3) \/ ~Inside(new, pos + str.len, n3))}

\* string_delete(buf, pos1, pos2)
string_delete(buf, pos1, pos2, m) ==
    IF ~Live(buf) \/ pos1 > buf.len \/ pos2 > buf.len \/ pos1 > pos2 THEN {Made(NULL, FALSE)}
    ELSE LET new == string_new(U32(buf.len - pos2 + pos1), m)
             n2 == U32(buf.len - pos2)
             d1 == Blit(new.data, 0, buf.data, 0, pos1)
             d2 == Blit(d1, pos1, buf.data, pos2 + 1, n2)
         IN  IF ~Live(new) THEN {Crash}
             ELSE {Made([new EXCEPT !.data = d2, !.len = U32(buf.len - pos2 + pos1 - 1)],
                        \/ ~Inside(buf, 0, pos1) \/ ~Inside(new, 0, pos1)
                        \/ ~Inside(buf, pos2 + 1, n2) \/ ~Inside(new, pos1, n2))}

(* strstr(buf->data + pos, search->data) reads both arguments as C strings:  *)
(* up to the first zero byte at or after the start, wherever that byte is.   *)
\* the offsets k >= off inside the data region at which b holds a zero byte
Zeros(b, off) == {k \in off..(Len(b.data) - 1) : k >= 0 /\ b.data[k + 1] = NUL}
Terminated(b, off) == off <= Len(b.data) - 1 /\ Zeros(b, off) # {}
\* the bytes of the C string at data + off: to the first zero byte, or to the
\* end of the data region when there is none
CBytes(b, off) ==
    LET end == IF Terminated(b, off)
               THEN CHOOSE k \in Zeros(b, off) : \A j \in Zeros(b, off) : k <= j
               ELSE Len(b.data)
    IN  [i \in 1..(IF end > off THEN end - off ELSE 0) |-> b.data[off + i]]
\* needle can be what hay holds from index j + 1 on: the bytes agree, an
\* unspecified byte agreeing with any; past the end of an unterminated hay
\* every byte is unspecified
MayMatch(hay, j, needle, open) ==
    /\ open \/ j + Len(needle) <= Len(hay)
    /\ \A i \in 1..Len(needle) :
          j + i > Len(hay) \/ hay[j + i] = needle[i] \/ hay[j + i] = U \/ needle[i] = U
MustMatch(hay, j, needle) ==
    /\ j + Len(needle) <= Len(hay)
    /\ \A i \in 1..Len(needle) : hay[j + i] = needle[i] /\ hay[j + i] # U

\* the outcomes of string_find: the position returned, and the oob flag
Found(p, bad) == [pos |-> p, oob |-> bad]

\* string_find(buf, search, pos)
string_find(buf, search, pos) ==
    IF ~Live(buf) \/ ~Live(search) \/ search.len > buf.len \/ pos > buf.len
    THEN {Found(STR_ERROR, FALSE)}
    ELSE LET hay == CBytes(buf, pos)
             needle == CBytes(search, 0)
             open == ~Terminated(buf, pos) \/ ~Terminated(search, 0)
             hits == {j \in 0..Len(hay) : MayMatch(hay, j, needle, open)}
             sure == {j \in hits : MustMatch(hay, j, needle)}
             first == {j \in hits : \A k \in sure : j <= k}
         IN  {Found(U32(pos + j), open) : j \in first}
             \cup (IF sure = {} THEN {Found(STR_ERROR, open)} ELSE {})

\* string_find_c(buf, csearch, pos)
string_find_c(buf, csearch, pos, m) ==
    IF ~Live(buf) \/ csearch.isNull \/ pos > buf.len THEN {Found(0, FALSE)}
    ELSE UNION {IF o.oob THEN {Found(STR_ERROR, TRUE)} ELSE string_find(buf, o.new, pos)
                : o \in string_new_c(csearch, m)}

\* string_delete_c(buf, str)
string_delete_c(buf, str, m) ==
    IF ~Live(buf) \/ str.isNull THEN {Made(NULL, FALSE)}
    ELSE UNION {IF f.oob THEN {Crash}
                ELSE IF f.pos = STR_ERROR THEN {Made(NULL, FALSE)}
                ELSE string_delete(buf, f.pos, U32(f.pos + strlen(str) - 1), m)
                : f \in string_find_c(buf, str, 0, m)}

\* the body shared by string_replace and string_replace_c once fpos is known
Replaced(buf, search, replace, fpos, m) ==
    LET new == string_new(U32(buf.len - search.len + replace.len), m)
        n3 == U32(buf.len - fpos - search.len)
        d1 == Blit(new.data, 0, buf.data, 0, fpos)
        d2 == Blit(d1, fpos, replace.data, 0, replace.len)
        d3 == Blit(d2, fpos + replace.len, buf.data, search.len + fpos, n3)
    IN  IF ~Live(new) THEN Crash
        ELSE Made([new EXCEPT !.data = d3, !.len = U32(buf.len - search.len + replace.len)],
                  \/ ~Inside(buf, 0, fpos) \/ ~Inside(new, 0, fpos)
                  \/ ~Inside(replace, 0, replace.len) \/ ~Inside(new, fpos, replace.len)
                  \/ ~Inside(buf, search.len + fpos, n3) \/ ~Inside(new, fpos + replace.len, n3))

\* string_replace(buf, search, replace, pos)
string_replace(buf, search, replace, pos, m) ==
    IF ~Live(buf) \/ ~Live(search) \/ ~Live(replace) \/ pos > buf.len THEN {Made(NULL, FALSE)}
    ELSE {IF f.oob THEN Crash
          ELSE IF f.pos = STR_ERROR THEN Made(NULL, FALSE)
          ELSE Replaced(buf, search, replace, f.pos, m)
          : f \in string_find(buf, search, pos)}

\* string_replace_c(buf, c_search, c_replace, pos)
string_replace_c(buf, c_search, c_replace, pos, m) ==
    IF ~Live(buf) \/ c_search.isNull \/ c_replace.isNull \/ pos > buf.len THEN {Made(NULL, FALSE)}
    ELSE UNION {IF s.oob \/ r.oob THEN {Crash}
                ELSE {IF f.oob THEN Crash
                      ELSE IF f.pos = STR_ERROR THEN Made(NULL, FALSE)
                      ELSE Replaced(buf, s.new, r.new, f.pos, m)
                      : f \in string_find(buf, s.new, pos)}
                : s \in string_new_c(c_search, m), r \in string_new_c(c_replace, m)}

\* the byte string_toupper / string_tolower stores for the byte c
upper(c) == IF c >= 97 /\ c <= 122 THEN c - 32 ELSE c
lower(c) == IF c >= 65 /\ c <= 90 THEN c + 32 ELSE c

\* the loop shared by string_toupper and string_tolower
Mapped(buf, up, m) ==
    IF ~Live(buf) THEN {Made(NULL, FALSE)}
    ELSE LET new == string_new(buf.len, m)
         IN  IF ~Live(new) THEN {Crash}
             ELSE {Made([new EXCEPT
                           !.data = Blit(@, 0, [k \in 1..Len(buf.data) |-> IF up THEN upper(buf.data[k]) ELSE lower(buf.data[k])], 0, buf.len),
                           !.len = buf.len],
                        ~Inside(buf, 0, buf.len) \/ ~Inside(new, 0, buf.len))}

string_toupper(buf, m) == Mapped(buf, TRUE, m)
string_tolower(buf, m) == Mapped(buf, FALSE, m)

\* isspace(c) can be nonzero / can be zero; an unspecified byte can be either
MaySpace(c) == c = U \/ isspace(c)
MayNonSpace(c) == c = U \/ ~isspace(c)
\* a scan stopped at position p, having read outside the data region or not
Stop(p, bad) == [pos |-> p, oob |-> bad]

\* while (pos1 < buf->len && isspace(buf->data[pos1])) ++pos1;
\* the values pos1 can end with.  A scan that leaves the data region is
\* followed no further than its first byte outside.
LeftStops(buf) ==
    {Stop(p, p < buf.len /\ p >= Len(buf.data)) :
        p \in {q \in 0..Min(buf.len, Len(buf.data)) :
                  /\ \A i \in 0..(q - 1) : MaySpace(Rd(buf, i))
                  /\ (q = buf.len \/ MayNonSpace(Rd(buf, q)))}}

\* uint32_t pos2 = buf->len - 1; while (pos2 >= 0 && isspace(buf->data[pos2])) --pos2;
\* pos2 >= 0 holds of every uint32_t, so the scan ends only at a byte that is
\* not a space: inside the content, or, after pos2 wrapped from 0 to
\* UINT32_MAX (or started there, for len = 0), outside the data region.  The
\* value -1 stands for a scan that goes on below UINT32_MAX.
RightStops(buf) ==
    LET top == U32(buf.len - 1)
    IN  IF top >= Len(buf.data) THEN {Stop(top, TRUE), Stop(-1, TRUE)}
        ELSE {Stop(q, FALSE) :
                q \in {r \in 0..top : /\ \A i \in (r + 1)..top : MaySpace(Rd(buf, i))
                                      /\ MayNonSpace(Rd(buf, r))}}
             \cup (IF \A i \in 0..top : MaySpace(Rd(buf, i))
                   THEN {Stop(UINT32_MAX, TRUE), Stop(-1, TRUE)} ELSE {})

\* string_ltrim(buf)
string_ltrim(buf, m) ==
    IF ~Live(buf) THEN {Made(NULL, FALSE)}
    ELSE {LET pos1 == s.pos
              new == string_new(U32(pos1 + U32(buf.len - 1) + 1), m)
              n == U32(U32(buf.len - 1) - pos1 + 1)
          IN  IF ~Live(new) THEN Crash
              ELSE Made([new EXCEPT !.data = Blit(@, 0, buf.data, pos1, n),
                                    !.len = n],
                        s.oob \/ ~Inside(buf, pos1, n) \/ ~Inside(new, 0, n))
          : s \in LeftStops(buf)}

\* string_rtrim(buf)
string_rtrim(buf, m) ==
    IF ~Live(buf) THEN {Made(NULL, FALSE)}
    ELSE {LET pos2 == s.pos
              new == string_new(U32(pos2 + 1), m)
              n == U32(pos2 + 1)
          IN  IF pos2 = -1 \/ ~Live(new) THEN Crash
              ELSE Made([new EXCEPT !.data = Blit(@, 0, buf.data, 0, n),
                                    !.len = n],
                        s.oob \/ ~Inside(buf, 0, n) \/ ~Inside(new, 0, n))
          : s \in RightStops(buf)}

\* string_trim(buf)
string_trim(buf, m) ==
    IF ~Live(buf) THEN {Made(NULL, FALSE)}
    ELSE {LET pos1 == s1.pos
              pos2 == s2.pos
              new == string_new(U32(pos1 + pos2 + 1), m)
              n == U32(pos2 - pos1 + 1)
          IN  IF pos2 = -1 \/ ~Live(new) THEN Crash
              ELSE Made([new EXCEPT !.data = Blit(@, 0, buf.data, pos1, n),
                                    !.len = n],
                        s1.oob \/ s2.oob \/ ~Inside(buf, pos1, n) \/ ~Inside(new, 0, n))
          : s1 \in LeftStops(buf), s2 \in RightStops(buf)}

\* An outcome of string_split: the buffer returned, the buffer stored in
\* *right (set = FALSE: *right was not assigned), and the oob flag.
Halves(l, r, assigned, bad) == [new |-> l, from |-> r, set |-> assigned, oob |-> bad]

\* string_split(buf, search, &right)
string_split(buf, search, m) ==
    IF ~Live(buf) \/ search.isNull THEN {Halves(NULL, NULL, FALSE, FALSE)}
    ELSE UNION {IF f.oob THEN {Halves(NULL, NULL, FALSE, TRUE)}
                ELSE IF f.pos = STR_ERROR THEN {Halves(NULL, NULL, FALSE, FALSE)}
                ELSE {IF r.oob THEN Halves(NULL, r.new, TRUE, TRUE)
                      ELSE Halves(l.new, r.new, TRUE, l.oob)
                      : r \in string_right(buf, U32(f.pos + strlen(search)), m),
                        l \in string_left(buf, U32(f.pos - 1), m)}
                : f \in string_find_c(buf, search, 0, m)}

(* --------------------- classification and hash (strings.c) ------------- *)
DASH == 45                    \* '-'
DOT == 46                     \* '.'
ONE == 49                     \* '1'
\* <ctype.h> isdigit
isdigit(c) == c >= 48 /\ c <= 57
\* the bytes the classified contents are made of
NumChars == {DASH, DOT, ONE, LA}

\* An outcome of a predicate: the value returned (1 for true, 0 for false)
\* and the oob flag.
Judged(v, bad) == [val |-> v, oob |-> bad]

\* if (buf->data[0] == '-') ++n;  the values n can start the loop with
FirstIndex(buf) ==
    (IF Rd(buf, 0) = DASH \/ Rd(buf, 0) = U THEN {1} ELSE {})
    \cup (IF Rd(buf, 0) # DASH THEN {0} ELSE {})

\* for (; n < buf->len; n++) if (!isdigit(buf->data[n])) return false;
\* from index n on.  An unspecified byte can be a digit or not; a loop that
\* leaves the data region is followed no further than its first byte outside.
RECURSIVE IntegerLoop(_, _)
IntegerLoop(buf, n) ==
    IF n >= buf.len THEN {Judged(1, FALSE)}
    ELSE IF n >= Len(buf.data) THEN {Judged(1, TRUE), Judged(0, TRUE)}
    ELSE LET c == Rd(buf, n)
         IN  (IF c = U \/ ~isdigit(c) THEN {Judged(0, FALSE)} ELSE {})
             \cup (IF c = U \/ isdigit(c) THEN IntegerLoop(buf, n + 1) ELSE {})

\* string_isinteger(buf)
string_isinteger(buf) ==
    IF ~Live(buf) THEN {Judged(0, FALSE)}
    ELSE UNION {IntegerLoop(buf, n) : n \in FirstIndex(buf)}

\* the loop of string_isfloat with a flag that is never set
RECURSIVE FloatLoop_any_dots(_, _, _)
FloatLoop_any_dots(buf, n, dot) ==
    IF n >= buf.len THEN {Judged(1, FALSE)}
    ELSE IF n >= Len(buf.data) THEN {Judged(1, TRUE), Judged(0, TRUE)}
    ELSE LET c == Rd(buf, n)
         IN  (IF c = U \/ (~isdigit(c) /\ c # DOT) THEN {Judged(0, FALSE)} ELSE {})
             \cup (IF c = U \/ isdigit(c) \/ c = DOT THEN FloatLoop_any_dots(buf, n + 1, dot) ELSE {})

\* the loop of string_isfloat from index n on, dot the value of the flag
RECURSIVE FloatLoop(_, _, _)
FloatLoop(buf, n, dot) ==
    IF n >= buf.len THEN {Judged(1, FALSE)}
    ELSE IF n >= Len(buf.data) THEN {Judged(1, TRUE), Judged(0, TRUE)}
    ELSE LET c == Rd(buf, n)
         IN  (IF c = U \/ (~isdigit(c) /\ ~(c = DOT /\ ~dot)) THEN {Judged(0, FALSE)} ELSE {})
             \cup (IF c = U \/ isdigit(c) THEN FloatLoop(buf, n + 1, dot) ELSE {})
             \cup (IF (c = U \/ c = DOT) /\ ~dot THEN FloatLoop(buf, n + 1, TRUE) ELSE {})

\* string_isfloat(buf)
string_isfloat(buf) ==
    IF ~Live(buf) THEN {Judged(0, FALSE)}
    ELSE UNION {FloatLoop(buf, n, FALSE) : n \in FirstIndex(buf)}

\* const size_t lengths[4] = { 8, 16, 4, 8 };
lengths == <<8, 16, 4, 8>>
\* An outcome of string_hash: result.outlen (U: never assigned, or read
\* from outside lengths[]), the primitive called, and the oob flag.
Hashed(l, f, bad) == [outlen |-> l, prim |-> f, oob |-> bad]

\* string_hash(buf, version, key): version is a uint8_t.  lengths[version]
\* is read without a test of version; the primitive reads buf->len bytes
\* of buf->data.
string_hash(buf, version) ==
    IF ~Live(buf) THEN {Hashed(0, "none", FALSE)}
    ELSE LET prim == IF version < 2 THEN "siphash" ELSE "halfsiphash"
         IN  IF version < Len(lengths)
             THEN {Hashed(lengths[version + 1], prim, ~Inside(buf, 0, buf.len))}
             ELSE {Hashed(l, prim, TRUE) : l \in {U} \cup {lengths[i] : i \in 1..Len(lengths)}}

(* ------------------------------- state --------------------------------- *)
\* The caller's String variables (test.c declares buf, a, b, c, cpy).
Handles == {1, 2, 3}

VARIABLES
    slot,     \* slot[h]: the buffer the caller's handle h refers to
    last,     \* the last call: operation, arguments, result, buffers before
    fault,    \* the last call accessed memory outside a data region
    nomem,    \* the allocator may answer NULL in this run
    steps     \* calls made so far

vars == <<slot, last, fault, nomem, steps>>

\* the allocator's possible answers to one request
Answers == IF nomem THEN {TRUE, FALSE} ELSE {TRUE}

NoCall == [op |-> "none", h |-> 0, h2 |-> 0, res |-> 0, ret |-> 0,
           pre |-> NULL, pre2 |-> NULL, raw |-> NULLSTR, n |-> 0, n2 |-> 0,
           prim |-> "none"]

Init ==
    /\ slot = [h \in Handles |-> NULL]
    /\ last = NoCall
    /\ fault = FALSE
    /\ nomem = FALSE
    /\ steps = 0

\* a call can be made: the program has not run into undefined behaviour
CanCall == ~fault /\ steps < MaxSteps

\* the variable that receives a returned buffer: the first handle that is NULL
IsTarget(h) == slot[h].st = "null" /\ \A g \in Handles : g < h => slot[g].st # "null"
\* a handle the caller may pass: a live one, or a NULL one (never a released
\* address).  Every operation returns before it reads any other argument
\* when a buffer argument is NULL, so NULL is passed through the first NULL
\* handle only and with one value of the other arguments.
Usable(h) == Live(slot[h]) \/ IsTarget(h)
\* the const char * arguments given along with the buffer b
RawFor(b) == IF Live(b) THEN RawArgs ELSE {CStr(<< >>)}
\* the capacities given along with the buffer b
CapFor(b) == IF Live(b) THEN 0..MaxCap ELSE {0}

\* a call that returns a buffer and releases its first argument
Returned_freeing_input(t, o, call) ==
    /\ slot' = [g \in Handles |-> IF g = t THEN o.new
                                   ELSE IF g = call.h THEN FREED ELSE slot[g]]
    /\ last' = [call EXCEPT !.res = t, !.ret = IF Live(o.new) THEN 1 ELSE 0]
    /\ fault' = o.oob
    /\ steps' = steps + 1
    /\ UNCHANGED nomem

\* the call returned the buffer o.new, assigned to handle t
Returned(t, o, call) ==
    /\ slot' = [slot EXCEPT ![t] = o.new]
    /\ last' = [call EXCEPT !.res = t, !.ret = IF Live(o.new) THEN 1 ELSE 0]
    /\ fault' = o.oob
    /\ steps' = steps + 1
    /\ UNCHANGED nomem

\* the call worked on handle h (and h2 when h2 # 0) and returned o.ret
Updated(h, h2, o, call) ==
    /\ slot' = [g \in Handles |-> IF g = h THEN o.to ELSE IF g = h2 THEN o.from ELSE slot[g]]
    /\ last' = [call EXCEPT !.ret = o.ret]
    /\ fault' = o.oob
    /\ steps' = steps + 1
    /\ UNCHANGED nomem

Call(op, h, h2, raw, n, n2) ==
    [op |-> op, h |-> h, h2 |-> h2, res |-> 0, ret |-> 0,
     pre |-> IF h = 0 THEN NULL ELSE slot[h],
     pre2 |-> IF h2 = 0 THEN NULL ELSE slot[h2],
     raw |-> raw, n |-> n, n2 |-> n2, prim |-> "none"]

(* --------------------------- Buffer Core calls ------------------------- *)
New ==
    \E t \in Handles, cap \in 0..MaxCap, m \in Answers :
        /\ CanCall /\ IsTarget(t)
        /\ Returned(t, Made(string_new(cap, m), FALSE), Call("New", 0, 0, NULLSTR, cap, 0))

NewC ==
    \E t \in Handles, str \in RawArgs, m \in Answers :
        /\ CanCall /\ IsTarget(t)
        /\ \E o \in string_new_c(str, m) : Returned(t, o, Call("NewC", 0, 0, str, 0, 0))

Dup ==
    \E t \in Handles, h \in Handles, m \in Answers :
        /\ CanCall /\ IsTarget(t) /\ Usable(h)
        /\ \E o \in string_dup(slot[h], m) : Returned(t, o, Call("Dup", h, 0, NULLSTR, 0, 0))

Resize ==
    \E h \in Handles, newcap \in 0..MaxCap, m \in Answers :
        /\ CanCall /\ Usable(h) /\ newcap \in CapFor(slot[h])
        /\ Updated(h, 0, string_resize(slot[h], newcap, m), Call("Resize", h, 0, NULLSTR, newcap, 0))

Move ==
    \E to \in Handles, from \in Handles, m \in Answers :
        /\ CanCall /\ to # from /\ Usable(to) /\ Usable(from)
        /\ Updated(to, from, string_move(slot[to], slot[from], m), Call("Move", to, from, NULLSTR, 0, 0))

Copy ==
    \E to \in Handles, from \in RawArgs, m \in Answers :
        /\ CanCall /\ Usable(to) /\ from \in RawFor(slot[to])
        /\ Updated(to, 0, string_copy(slot[to], from, m), Call("Copy", to, 0, from, 0, 0))

AppendText ==
    \E h \in Handles, fmt \in RawArgs :
        /\ CanCall /\ Usable(h) /\ fmt \in RawFor(slot[h])
        /\ Updated(h, 0, string_append(slot[h], fmt), Call("Append", h, 0, fmt, 0, 0))

WriteText ==
    \E h \in Handles, fmt \in RawArgs :
        /\ CanCall /\ Usable(h) /\ fmt \in RawFor(slot[h])
        /\ Updated(h, 0, string_write(slot[h], fmt), Call("Write", h, 0, fmt, 0, 0))

Reset ==
    \E h \in Handles :
        /\ CanCall /\ Usable(h)
        /\ Updated(h, 0, string_reset(slot[h]), Call("Reset", h, 0, NULLSTR, 0, 0))

\* the caller's free(buf) of a live buffer, or its overwriting of a handle
\* whose storage is gone; the handle is NULL afterwards
Release ==
    \E h \in Handles :
        /\ CanCall /\ slot[h].st # "null"
        /\ Updated(h, 0, Done(NULL, NULL, 0, FALSE), Call("Release", h, 0, NULLSTR, 0, 0))

(* ------------------------- String Algorithm calls ---------------------- *)
\* the positions a call on the buffer b is given: each accepted position up
\* to MaxPos, the length itself, and one position the operation rejects
PosArgs(b) == IF Live(b) THEN (0..Min(U32(b.len + 1), MaxPos)) \cup {b.len} ELSE {0}

Left ==
    \E t \in Handles, h \in Handles, m \in Answers :
        /\ CanCall /\ IsTarget(t) /\ Usable(h)
        /\ \E pos \in PosArgs(slot[h]) : \E o \in string_left(slot[h], pos, m) :
              Returned(t, o, Call("Left", h, 0, NULLSTR, pos, 0))

Right ==
    \E t \in Handles, h \in Handles, m \in Answers :
        /\ CanCall /\ IsTarget(t) /\ Usable(h)
        /\ \E pos \in PosArgs(slot[h]) : \E o \in string_right(slot[h], pos, m) :
              Returned(t, o, Call("Right", h, 0, NULLSTR, pos, 0))

Mid ==
    \E t \in Handles, h \in Handles, m \in Answers :
        /\ CanCall /\ IsTarget(t) /\ Usable(h)
        /\ \E left \in PosArgs(slot[h]), right \in PosArgs(slot[h]) :
              \E o \in string_mid(slot[h], left, right, m) :
                 Returned(t, o, Call("Mid", h, 0, NULLSTR, left, right))

Concat ==
    \E t \in Handles, h \in Handles, h2 \in Handles, m \in Answers :
        /\ CanCall /\ IsTarget(t) /\ Usable(h) /\ Usable(h2)
        /\ \E o \in string_concat(slot[h], slot[h2], m) :
              Returned(t, o, Call("Concat", h, h2, NULLSTR, 0, 0))

Insert ==
    \E t \in Handles, h \in Handles, h2 \in Handles, m \in Answers :
        /\ CanCall /\ IsTarget(t) /\ Usable(h) /\ Usable(h2)
        /\ \E pos \in PosArgs(slot[h]) : \E o \in string_insert(slot[h], slot[h2], pos, m) :
              Returned(t, o, Call("Insert", h, h2, NULLSTR, pos, 0))

Delete ==
    \E t \in Handles, h \in Handles, m \in Answers :
        /\ CanCall /\ IsTarget(t) /\ Usable(h)
        /\ \E pos1 \in PosArgs(slot[h]), pos2 \in PosArgs(slot[h]) :
              \E o \in string_delete(slot[h], pos1, pos2, m) :
                 Returned(t, o, Call("Delete", h, 0, NULLSTR, pos1, pos2))

\* res = string_find(buf, search, pos): no buffer changes, last.ret is res
Find ==
    \E h \in Handles, h2 \in Handles :
        /\ CanCall /\ Usable(h) /\ Usable(h2)
        /\ \E pos \in PosArgs(slot[h]) : \E f \in string_find(slot[h], slot[h2], pos) :
              Updated(h, h2, Done(slot[h], slot[h2], f.pos, f.oob),
                      Call("Find", h, h2, NULLSTR, pos, 0))

\* res = string_find_c(buf, csearch, pos)
FindC ==
    \E h \in Handles, str \in RawArgs, m \in Answers :
        /\ CanCall /\ Usable(h) /\ str \in RawFor(slot[h])
        /\ \E pos \in PosArgs(slot[h]) : \E f \in string_find_c(slot[h], str, pos, m) :
              Updated(h, 0, Done(slot[h], NULL, f.pos, f.oob),
                      Call("FindC", h, 0, str, pos, 0))

DeleteMatch ==
    \E t \in Handles, h \in Handles, str \in RawArgs, m \in Answers :
        /\ CanCall /\ IsTarget(t) /\ Usable(h) /\ str \in RawFor(slot[h])
        /\ \E o \in string_delete_c(slot[h], str, m) :
              Returned(t, o, Call("DeleteMatch", h, 0, str, 0, 0))

\* string_replace; the replacement is the search buffer or the buffer searched
Replace ==
    \E t \in Handles, h \in Handles, h2 \in Handles, m \in Answers :
        /\ CanCall /\ IsTarget(t) /\ Usable(h) /\ Usable(h2)
        /\ \E pos \in PosArgs(slot[h]), rep \in {h, h2} :
              \E o \in string_replace(slot[h], slot[h2], slot[rep], pos, m) :
                 Returned(t, o, Call("Replace", h, h2, NULLSTR, pos, rep))

\* string_replace_c; the replacement text is the search text or empty
ReplaceC ==
    \E t \in Handles, h \in Handles, str \in RawArgs, m \in Answers :
        /\ CanCall /\ IsTarget(t) /\ Usable(h) /\ str \in RawFor(slot[h])
        /\ \E pos \in PosArgs(slot[h]), rep \in {str, CStr(<< >>)} :
              \E o \in string_replace_c(slot[h], str, rep, pos, m) :
                 Returned(t, o, Call("ReplaceC", h, 0, str, pos, strlen(rep)))

ToUpper ==
    \E t \in Handles, h \in Handles, m \in Answers :
        /\ CanCall /\ IsTarget(t) /\ Usable(h)
        /\ \E o \in string_toupper(slot[h], m) : Returned(t, o, Call("ToUpper", h, 0, NULLSTR, 0, 0))

ToLower ==
    \E t \in Handles, h \in Handles, m \in Answers :
        /\ CanCall /\ IsTarget(t) /\ Usable(h)
        /\ \E o \in string_tolower(slot[h], m) : Returned(t, o, Call("ToLower", h, 0, NULLSTR, 0, 0))

LTrim ==
    \E t \in Handles, h \in Handles, m \in Answers :
        /\ CanCall /\ IsTarget(t) /\ Usable(h)
        /\ \E o \in string_ltrim(slot[h], m) : Returned(t, o, Call("LTrim", h, 0, NULLSTR, 0, 0))

RTrim ==
    \E t \in Handles, h \in Handles, m \in Answers :
        /\ CanCall /\ IsTarget(t) /\ Usable(h)
        /\ \E o \in string_rtrim(slot[h], m) : Returned(t, o, Call("RTrim", h, 0, NULLSTR, 0, 0))

Trim ==
    \E t \in Handles, h \in Handles, m \in Answers :
        /\ CanCall /\ IsTarget(t) /\ Usable(h)
        /\ \E o \in string_trim(slot[h], m) : Returned(t, o, Call("Trim", h, 0, NULLSTR, 0, 0))

\* buf = string_split(a, search, &right), with right a handle that is NULL
Split ==
    \E t \in Handles, r \in Handles, h \in Handles, search \in RawArgs, m \in Answers :
        /\ CanCall /\ IsTarget(t) /\ Usable(h) /\ search \in RawFor(slot[h])
        /\ r # t /\ slot[r].st = "null" /\ \A g \in Handles : (g # t /\ g < r) => slot[g].st # "null"
        /\ \E o \in string_split(slot[h], search, m) :
              /\ slot' = [slot EXCEPT ![t] = o.new, ![r] = IF o.set THEN o.from ELSE @]
              /\ last' = [Call("Split", h, r, search, 0, 0) EXCEPT
                            !.res = t, !.ret = IF Live(o.new) THEN 1 ELSE 0]
              /\ fault' = o.oob
              /\ steps' = steps + 1
              /\ UNCHANGED nomem

\* bres = string_isinteger(buf): no buffer changes, last.ret is bres
IsInteger ==
    \E h \in Handles :
        /\ CanCall /\ Usable(h)
        /\ \E j \in string_isinteger(slot[h]) :
              Updated(h, 0, Done(slot[h], NULL, j.val, j.oob),
                      Call("IsInteger", h, 0, NULLSTR, 0, 0))

\* bres = string_isfloat(buf)
IsFloat ==
    \E h \in Handles :
        /\ CanCall /\ Usable(h)
        /\ \E j \in string_isfloat(slot[h]) :
              Updated(h, 0, Done(slot[h], NULL, j.val, j.oob),
                      Call("IsFloat", h, 0, NULLSTR, 0, 0))

\* hash = string_hash(buf, version, key): last.ret is hash.outlen, last.prim
\* the primitive that was called
Hash ==
    \E h \in Handles, version \in 0..MaxVersion :
        /\ CanCall /\ Usable(h) /\ (Live(slot[h]) \/ version = 0)
        /\ \E r \in string_hash(slot[h], version) :
              Updated(h, 0, Done(slot[h], NULL, r.outlen, r.oob),
                      [Call("Hash", h, 0, NULLSTR, version, 0) EXCEPT !.prim = r.prim])

Next ==
    \/ New \/ NewC \/ Dup \/ Resize \/ Move \/ Copy
    \/ AppendText \/ WriteText \/ Reset \/ Release
    \/ Left \/ Right \/ Mid \/ Concat \/ Insert \/ Delete \/ DeleteMatch
    \/ Find \/ FindC
    \/ Replace \/ ReplaceC \/ ToUpper \/ ToLower \/ LTrim \/ RTrim \/ Trim \/ Split
    \/ IsInteger \/ IsFloat \/ Hash

Spec == Init /\ [][Next]_vars

\* the calls of the Buffer Core alone, every buffer starting from string_new
CoreNext ==
    \/ New \/ Dup \/ Resize \/ Move \/ Copy
    \/ AppendText \/ WriteText \/ Reset \/ Release

CoreSpec == Init /\ [][CoreNext]_vars

\* The classification predicates and the hash, called on a buffer that
\* string_new_c made of text such as "-124" and "23.89" (test.c), or on NULL.
NumBufs ==
    UNION {{o.new : o \in string_new_c(CStr(t), TRUE)} : t \in SeqsUpTo(NumChars, MaxDigits)}

ScanInit ==
    /\ slot \in {[h \in Handles |-> IF h = 1 THEN b ELSE NULL] : b \in NumBufs}
    /\ last = NoCall
    /\ fault = FALSE
    /\ nomem = FALSE
    /\ steps = 0

ScanNext == IsInteger \/ IsFloat \/ Hash

ScanSpec == ScanInit /\ [][ScanNext]_vars

\* The String Algorithm calls alone, on buffers that string_new_c made of
\* text (test.c: a = string_new_c("es un test"); buf = string_left(a, 4))
\* and on buffers that an algorithm call on such a buffer returned.
TextBufs == UNION {{o.new : o \in string_new_c(CStr(t), TRUE)} : t \in Strs}
Derived(a) ==
    {o.new : o \in {r \in UNION ({string_left(a, p, TRUE) : p \in PosArgs(a)}
                                  \cup {string_mid(a, p, q, TRUE) : p, q \in PosArgs(a)}
                                  \cup {string_delete(a, p, q, TRUE) : p, q \in PosArgs(a)}
                                  \cup {string_ltrim(a, TRUE)}) :
                        ~r.oob /\ Live(r.new)}}
\* the second operand: the buffer of a text of at most one byte
Fragments == {b \in TextBufs : b.len <= 1}
AlgBufs == TextBufs \cup UNION {Derived(a) : a \in TextBufs}

\* the buffers a and b are built, the result variable is NULL, and the
\* program has one call left
AlgInit ==
    /\ slot \in {[h \in Handles |-> IF h = 1 THEN a ELSE IF h = 2 THEN b ELSE NULL] :
                    a \in AlgBufs, b \in Fragments \cup {NULL}}
    /\ last = NoCall
    /\ fault = FALSE
    /\ nomem = FALSE
    /\ steps = MaxSteps - 1

AlgNext ==
    \/ Left \/ Right \/ Mid \/ Concat \/ Insert \/ Delete \/ DeleteMatch
    \/ Find \/ FindC
    \/ Replace \/ ReplaceC \/ ToUpper \/ ToLower \/ LTrim \/ RTrim \/ Trim \/ Split
    \/ IsInteger \/ IsFloat

AlgSpec == AlgInit /\ [][AlgNext]_vars

\* The calls that allocate, in a run in which malloc and realloc can fail.
MemInit ==
    /\ slot = [h \in Handles |-> NULL]
    /\ last = NoCall
    /\ fault = FALSE
    /\ nomem = TRUE
    /\ steps = 0

MemNext ==
    \/ New \/ NewC \/ Dup \/ Resize
    \/ Concat \/ Left \/ Right \/ Insert \/ Replace

MemSpec == MemInit /\ [][MemNext]_vars

(* ------------------------------- claims -------------------------------- *)
LiveHandles == {h \in Handles : Live(slot[h])}
\* every content byte of b lies inside its allocation
Whole(b) == b.len <= Len(b.data)
\* the content bytes of b that lie inside its allocation
Bytes(b) == [i \in 1..Min(b.len, Len(b.data)) |-> b.data[i]]
\* the content of b is exactly the byte sequence s
ContentIs(b, s) == Whole(b) /\ b.len = Len(s) /\ Bytes(b) = s
\* the buffer respects the data model: len <= cap, cap is the allocated
\* capacity, and a zero byte ends the content
Sound(b) == Live(b) /\ b.len <= b.cap /\ b.cap + 1 = Len(b.data) /\ Rd(b, b.len) = NUL
Did(op) == last.op = op

\* C1: in every state reached without an invalid memory access, every live
\* buffer has length <= capacity.
C1_LengthWithinCapacity ==
    ~fault => \A h \in LiveHandles : slot[h].len <= slot[h].cap

\* C2: in every state reached without an invalid memory access, every live
\* buffer holds a zero byte at offset length; a byte never written, or
\* outside the allocation, is unspecified and does not count as zero.
C2_TerminatedAtLength ==
    ~fault => \A h \in LiveHandles : Rd(slot[h], slot[h].len) = NUL

\* C3: no call reads or writes a byte outside the data region of a buffer it
\* is given or creates.
C3_NoAccessOutside == fault = FALSE

\* C4: in every state reached without an invalid memory access, the capacity
\* recorded in a live buffer is the capacity its storage is allocated for.
C4_CapacityIsAllocation ==
    ~fault => \A h \in LiveHandles : slot[h].cap + 1 = Len(slot[h].data)

\* C5: Append of a text of n bytes to a buffer of length L and capacity C:
\* when n <= C - L it returns n, the length is L + n and the content is the
\* old content followed by the text; when n > C - L it returns 0 and the
\* buffer is unchanged.
C5_AppendFitsOrNothing ==
    (Did("Append") /\ Live(last.pre) /\ ~last.raw.isNull) =>
        LET L == last.pre.len
            C == last.pre.cap
            n == strlen(last.raw)
            b == slot[last.h]
        IN  /\ n <= C - L => /\ last.ret = n
                             /\ b.len = L + n
                             /\ Whole(b)
                             /\ Bytes(b) = Bytes(last.pre) \o last.raw.chars
            /\ n > C - L => last.ret = 0 /\ b = last.pre

\* C6: Write of a text of n bytes: when n <= capacity the content is the
\* text, the length is n and n is returned; when n > capacity it returns 0
\* and the buffer is unchanged.
C6_WriteFitsOrNothing ==
    (Did("Write") /\ Live(last.pre) /\ ~last.raw.isNull) =>
        LET n == strlen(last.raw)
            b == slot[last.h]
        IN  /\ n <= last.pre.cap => ContentIs(b, last.raw.chars) /\ last.ret = n
            /\ n > last.pre.cap => last.ret = 0 /\ b = last.pre

\* C7: a successful Resize(buf, n) leaves capacity n, length min(old length,
\* n), the first min(old length, n) content bytes, and a terminator at the
\* new length; Resize to the current capacity changes nothing; and once the
\* buffer has grown, every Append of k <= capacity - length bytes returns k.
C7_ResizeKeepsPrefix ==
    (Did("Resize") /\ Live(last.pre) /\ last.ret = 1) =>
        LET n == last.n
            b == slot[last.h]
            keep == Min(last.pre.len, n)
        IN  /\ b.cap = n
            /\ b.len = keep
            /\ Whole(b)
            /\ Bytes(b) = SubSeq(Bytes(last.pre), 1, keep)
            /\ Rd(b, b.len) = NUL
            /\ n = last.pre.cap => b = last.pre
            /\ n > last.pre.cap =>
                  \A t \in Strs : Len(t) <= b.cap - b.len =>
                      string_append(b, CStr(t)).ret = Len(t)

\* C8: after a successful Move(to, from) the caller's from handle is NULL.
C8_MoveNullsSource ==
    (Did("Move") /\ last.ret = 0) => slot[last.h2].st = "null"

\* C9: after a successful Move(to, from), to has the length and the content
\* from had before the call; Move returns the error value when to or from is
\* absent.
C9_MoveTransfersContent ==
    /\ (Did("Move") /\ last.ret = 0) =>
          /\ slot[last.h].len = last.pre2.len
          /\ Whole(slot[last.h]) /\ Whole(last.pre2)
          /\ Bytes(slot[last.h]) = Bytes(last.pre2)
    /\ (Did("Move") /\ (~Live(last.pre) \/ ~Live(last.pre2))) => last.ret = UINT32_MAX

\* C10: after a successful CopyContent(to, raw), to's content is raw, its
\* length is the length of raw and its capacity is at least that length;
\* CopyContent returns the error value when to or raw is absent.
C10_CopyTakesRaw ==
    /\ (Did("Copy") /\ last.ret = 0) =>
          /\ ContentIs(slot[last.h], last.raw.chars)
          /\ slot[last.h].cap >= strlen(last.raw)
    /\ (Did("Copy") /\ (~Live(last.pre) \/ last.raw.isNull)) => last.ret = UINT32_MAX

(* The contracts of C5, C6, C7, C9 and C10 restricted to calls whose buffer  *)
(* arguments respect the data model (Sound).                                 *)
OnSoundBuffers ==
    /\ (Did("Append") /\ Sound(last.pre)) => C5_AppendFitsOrNothing /\ ~fault
    /\ (Did("Write") /\ Sound(last.pre)) => C6_WriteFitsOrNothing /\ ~fault
    /\ (Did("Resize") /\ Sound(last.pre)) => C7_ResizeKeepsPrefix /\ ~fault
    /\ (Did("Move") /\ Sound(last.pre) /\ Sound(last.pre2)) => C9_MoveTransfersContent /\ ~fault
    /\ (Did("Copy") /\ Sound(last.pre)) => C10_CopyTakesRaw /\ ~fault

Cut(s, a, b) == [i \in 1..(Min(b + 1, Len(s)) - a) |-> s[a + i]]

\* C13: Left(buf, pos) with pos <= length returns a buffer whose content is
\* the input's content from offset 0 up to and including offset pos; Left
\* returns NULL exactly when buf is NULL or pos > length.
C13_LeftIsPrefix ==
    Did("Left") =>
        LET pre == last.pre
            pos == last.n
            rejected == ~Live(pre) \/ pos > pre.len
        IN  /\ ~rejected => /\ last.ret = 1
                            /\ ContentIs(slot[last.res], Cut(Bytes(pre), 0, pos))
            /\ rejected <=> last.ret = 0

\* C14: Mid(buf, left, right) with left <= right <= length returns a buffer
\* whose content is the input's content at the offsets left..right; Mid
\* returns NULL when a bound exceeds the length or left > right.
C14_MidIsRange ==
    Did("Mid") =>
        LET pre == last.pre
            left == last.n
            right == last.n2
            rejected == ~Live(pre) \/ left > pre.len \/ right > pre.len \/ left > right
        IN  /\ ~rejected => /\ last.ret = 1
                            /\ ContentIs(slot[last.res], Cut(Bytes(pre), left, right))
            /\ rejected => last.ret = 0

\* C15: Delete(buf, pos1, pos2) with pos1 <= pos2 <= length returns a
\* buffer whose content is the input's content without the bytes at the
\* offsets pos1..pos2, its length being the number of bytes that remain;
\* Delete returns NULL when pos1 > pos2 or a position exceeds the length.
C15_DeleteRemovesRange ==
    Did("Delete") =>
        LET pre == last.pre
            pos1 == last.n
            pos2 == last.n2
            rejected == ~Live(pre) \/ pos1 > pre.len \/ pos2 > pre.len \/ pos1 > pos2
            B == Bytes(pre)
        IN  /\ ~rejected => /\ last.ret = 1
                            /\ ContentIs(slot[last.res],
                                         Cut(B, 0, pos1 - 1) \o Cut(B, pos2 + 1, Len(B) - 1))
            /\ rejected => last.ret = 0

\* the offsets p >= from at which needle occurs in content
Occurrences(content, needle, from) ==
    {p \in from..(Len(content) - Len(needle)) :
        Cut(content, p, p + Len(needle) - 1) = needle}
\* the smallest element of a non-empty set of offsets
First(S) == CHOOSE p \in S : \A q \in S : p <= q

\* C16: Split(buf, separator) with a non-empty separator that occurs in the
\* content returns the content before the first occurrence and stores in
\* *right the content after it; it returns NULL only when the separator
\* does not occur.
C16_SplitAtFirst ==
    (Did("Split") /\ Live(last.pre) /\ ~last.raw.isNull /\ strlen(last.raw) > 0) =>
        LET B == Bytes(last.pre)
            sep == last.raw.chars
            occ == Occurrences(B, sep, 0)
            p == First(occ)
        IN  IF occ = {} THEN last.ret = 0
            ELSE /\ last.ret = 1
                 /\ ContentIs(slot[last.res], Cut(B, 0, p - 1))
                 /\ ContentIs(slot[last.h2], Cut(B, p + Len(sep), Len(B) - 1))

\* C17: Find with a buffer needle and Find with a raw-string needle return
\* the sentinel UINT32_MAX when the buffer or the needle is absent or
\* pos > length, and return 0 only when the needle occurs at offset 0.
C17_FindSentinel ==
    /\ Did("Find") =>
          /\ (~Live(last.pre) \/ ~Live(last.pre2) \/ last.n > last.pre.len)
                => last.ret = STR_ERROR
          /\ (last.ret = 0 /\ last.h # last.h2)
                => 0 \in Occurrences(Bytes(last.pre), Bytes(last.pre2), 0)
    /\ Did("FindC") =>
          /\ (~Live(last.pre) \/ last.raw.isNull \/ last.n > last.pre.len)
                => last.ret = STR_ERROR
          /\ (last.ret = 0 /\ Live(last.pre) /\ ~last.raw.isNull)
                => 0 \in Occurrences(Bytes(last.pre), last.raw.chars, 0)

\* C18: Find(buf, needle, fromPos) with fromPos <= length(buf) and
\* length(needle) <= length(buf), buf and needle being two buffers, returns
\* the smallest offset p >= fromPos at which needle's content occurs in
\* buf's content, and the sentinel when there is none (stated for the calls
\* that made no invalid memory access).
C18_FindFirstOccurrence ==
    (/\ ~fault
     /\ Did("Find") /\ Live(last.pre) /\ Live(last.pre2) /\ last.h # last.h2
     /\ last.n <= last.pre.len /\ last.pre2.len <= last.pre.len) =>
        LET occ == Occurrences(Bytes(last.pre), Bytes(last.pre2), last.n)
        IN  last.ret = IF occ = {} THEN STR_ERROR ELSE First(occ)

\* the replacement text of the last Replace / ReplaceC call
Replacement ==
    IF Did("Replace") THEN Bytes(IF last.n2 = last.h THEN last.pre ELSE last.pre2)
    ELSE IF last.n2 = 0 THEN << >> ELSE last.raw.chars
\* the needle of the last Replace / ReplaceC call
Needle == IF Did("Replace") THEN Bytes(last.pre2) ELSE last.raw.chars

\* C19: Replace(buf, needle, replacement, fromPos), when needle occurs at or
\* after fromPos, returns buf's content before the first such occurrence,
\* then the replacement, then buf's content after the occurrence; it
\* returns NULL when there is no such occurrence; string_replace_c alike
\* (stated for the calls that made no invalid memory access).
C19_ReplaceFirst ==
    (/\ ~fault
     /\ (Did("Replace") /\ Live(last.pre2) /\ last.h # last.h2) \/ (Did("ReplaceC") /\ ~last.raw.isNull)
     /\ Live(last.pre) /\ last.n <= last.pre.len) =>
        LET B == Bytes(last.pre)
            occ == Occurrences(B, Needle, last.n)
            p == First(occ)
        IN  IF occ = {} THEN last.ret = 0
            ELSE /\ last.ret = 1
                 /\ ContentIs(slot[last.res],
                              Cut(B, 0, p - 1) \o Replacement
                                \o Cut(B, p + Len(Needle), Len(B) - 1))
                 /\ slot[last.res].len = last.pre.len - Len(Needle) + Len(Replacement)

\* C20: DeleteMatch(buf, needle) with a needle that occurs in buf returns
\* buf's content without the first occurrence of needle; it returns NULL
\* when needle does not occur (stated for the calls that made no invalid
\* memory access).
C20_DeleteFirstMatch ==
    (~fault /\ Did("DeleteMatch") /\ Live(last.pre) /\ ~last.raw.isNull) =>
        LET B == Bytes(last.pre)
            needle == last.raw.chars
            occ == Occurrences(B, needle, 0)
            p == First(occ)
        IN  IF occ = {} THEN last.ret = 0
            ELSE /\ last.ret = 1
                 /\ ContentIs(slot[last.res],
                              Cut(B, 0, p - 1) \o Cut(B, p + Len(needle), Len(B) - 1))

\* the buffer respects the data model and its content holds no zero byte
\* and no byte that was never written
Proper(b) == Sound(b) /\ \A i \in 1..b.len : b.data[i] # NUL /\ b.data[i] # U

(* The contracts of C13 .. C20 on inputs that respect the data model        *)
(* (Proper), away from the boundary cases in which the code departs from     *)
(* them: there the calls make no invalid access and return what is claimed. *)
(* Mid is stated as the code computes it, for the offsets left-1..right-1.  *)
OnSoundInputs ==
    /\ (Did("Left") /\ Proper(last.pre) /\ last.n < last.pre.len)
          => ~fault /\ C13_LeftIsPrefix
    /\ (Did("Mid") /\ Proper(last.pre) /\ 1 <= last.n /\ last.n <= last.n2
                   /\ last.n2 <= last.pre.len)
          => /\ ~fault /\ last.ret = 1
             /\ ContentIs(slot[last.res], Cut(Bytes(last.pre), last.n - 1, last.n2 - 1))
    /\ (Did("Delete") /\ Proper(last.pre) /\ last.n2 < last.pre.len)
          => ~fault /\ C15_DeleteRemovesRange
    /\ (Did("Split") /\ Proper(last.pre)
           /\ ~(0 \in Occurrences(Bytes(last.pre), last.raw.chars, 0)))
          => ~fault /\ C16_SplitAtFirst
    /\ (Did("Find") /\ Proper(last.pre) /\ Proper(last.pre2))
          => ~fault /\ C18_FindFirstOccurrence
    /\ (Did("Replace") /\ Proper(last.pre) /\ Proper(last.pre2))
          => ~fault /\ C19_ReplaceFirst
    /\ (Did("ReplaceC") /\ Proper(last.pre))
          => ~fault /\ C19_ReplaceFirst
    /\ (Did("DeleteMatch") /\ Proper(last.pre) /\ strlen(last.raw) > 0)
          => ~fault /\ C20_DeleteFirstMatch

\* the content of b is whitespace only (or empty)
Blank(b) == \A i \in 1..b.len : isspace(b.data[i])

\* C21: Trim and RTrim of a buffer whose content is empty or whitespace only
\* make no invalid access and return a buffer of length 0 with empty content.
C21_TrimOfBlankIsEmpty ==
    ((Did("Trim") \/ Did("RTrim")) /\ Proper(last.pre) /\ Blank(last.pre))
        => /\ ~fault
           /\ last.ret = 1
           /\ ContentIs(slot[last.res], << >>)

\* s without its leading and its trailing whitespace bytes
Stripped(s) ==
    LET keep == {i \in 1..Len(s) : ~isspace(s[i])}
    IN  IF keep = {} THEN << >>
        ELSE LET lo == CHOOSE i \in keep : \A j \in keep : i <= j
                 hi == CHOOSE i \in keep : \A j \in keep : j <= i
             IN  SubSeq(s, lo, hi)

\* C22: Trim returns the content without its leading and trailing whitespace,
\* and Trim of that result returns the same length and content again.
C22_TrimIsIdempotent ==
    (Did("Trim") /\ Proper(last.pre))
        => /\ ~fault
           /\ last.ret = 1
           /\ ContentIs(slot[last.res], Stripped(Bytes(last.pre)))
           /\ \A o \in string_trim(slot[last.res], TRUE) :
                 ~o.oob /\ Live(o.new) /\ ContentIs(o.new, Bytes(slot[last.res]))

\* C22 for contents that hold a byte that is not whitespace
OnNonBlankInputs ==
    (Did("Trim") /\ Proper(last.pre) /\ ~Blank(last.pre)) => C22_TrimIsIdempotent

\* C23: Insert(buf, fragment, pos) with pos <= length(buf) returns buf's first
\* pos bytes, then fragment's content, then buf's bytes from offset pos on,
\* with length length(buf) + length(fragment); with pos > length(buf) it
\* returns no buffer.
C23_InsertSplices ==
    (Did("Insert") /\ Live(last.pre) /\ Live(last.pre2))
        => LET B == Bytes(last.pre)
               F == Bytes(last.pre2)
               pos == last.n
           IN  IF pos <= last.pre.len
               THEN /\ ~fault
                    /\ last.ret = 1
                    /\ slot[last.res].len = last.pre.len + last.pre2.len
                    /\ ContentIs(slot[last.res],
                                 Cut(B, 0, pos - 1) \o F \o Cut(B, pos, Len(B) - 1))
               ELSE ~fault /\ last.ret = 0

\* C23 for operands that respect the data model
InsertOnSoundBuffers ==
    (Did("Insert") /\ Sound(last.pre) /\ Sound(last.pre2)) => C23_InsertSplices

\* the content without its optional leading '-'
Unsigned(s) == IF Len(s) > 0 /\ s[1] = DASH THEN Tail(s) ELSE s
\* the number of '.' bytes in s
Dots(s) == Cardinality({i \in 1..Len(s) : s[i] = DOT})

\* C24 as stated: IsInteger is true exactly when the content is an optional
\* leading '-' followed only by digits; IsFloat is true exactly when it is an
\* optional leading '-' followed by digits and exactly one '.'; empty content
\* is accepted by both.
C24_ClassifiesExactly ==
    LET s == Unsigned(Bytes(last.pre))
    IN  /\ (Did("IsInteger") /\ Proper(last.pre))
              => /\ ~fault
                 /\ last.ret = 1 <=> \A i \in 1..Len(s) : isdigit(s[i])
        /\ (Did("IsFloat") /\ Proper(last.pre))
              => /\ ~fault
                 /\ last.ret = 1 <=>
                       \/ Bytes(last.pre) = << >>
                       \/ /\ \A i \in 1..Len(s) : isdigit(s[i]) \/ s[i] = DOT
                          /\ Dots(s) = 1

\* C24, amended: IsFloat is true exactly when the content is an optional
\* leading '-' followed by digits and at most one '.' (none included).
C24_ClassifiesByScan ==
    LET s == Unsigned(Bytes(last.pre))
    IN  /\ (Did("IsInteger") /\ Proper(last.pre))
              => /\ ~fault
                 /\ last.ret = 1 <=> \A i \in 1..Len(s) : isdigit(s[i])
        /\ (Did("IsFloat") /\ Proper(last.pre))
              => /\ ~fault
                 /\ last.ret = 1 <=>
                       /\ \A i \in 1..Len(s) : isdigit(s[i]) \/ s[i] = DOT
                       /\ Dots(s) <= 1

\* IsFloat accepted "-1." or "-.1"
C24_SignedFloatAccepted ==
    /\ Did("IsFloat") /\ last.ret = 1
    /\ Len(Bytes(last.pre)) = 3 /\ Bytes(last.pre)[1] = DASH
    /\ Dots(Bytes(last.pre)) = 1

\* C25: Hash with version 0, 1, 2, 3 records output length 8, 16, 4, 8, calls
\* the full-width primitive for versions 0 and 1 and the half-width primitive
\* for versions 2 and 3; for an absent buffer the output length is 0; any
\* other version is rejected: nothing is indexed with it and no primitive is
\* called.
C25_HashSelectsByVersion ==
    Did("Hash")
        => IF ~Live(last.pre) THEN ~fault /\ last.ret = 0 /\ last.prim = "none"
           ELSE IF last.n \in 0..3
                THEN /\ ~fault
                     /\ last.ret = <<8, 16, 4, 8>>[last.n + 1]
                     /\ last.prim = IF last.n \in {0, 1} THEN "siphash" ELSE "halfsiphash"
                ELSE ~fault /\ last.prim = "none"

\* C25 for the four versions of enum STRING_HASH_VERSION
HashOnKnownVersions ==
    (Did("Hash") /\ last.n \in 0..3 /\ Whole(last.pre)) => C25_HashSelectsByVersion

\* the operations of the String Algorithms component, as last.op names them
AlgOps ==
    {"Left", "Right", "Mid", "Concat", "Insert", "Delete", "DeleteMatch",
     "Find", "FindC", "Replace", "ReplaceC", "ToUpper", "ToLower",
     "LTrim", "RTrim", "Trim", "Split", "IsInteger", "IsFloat"}

MemOps == {"New", "NewC", "Dup", "Resize", "Concat", "Left", "Right", "Insert", "Replace"}

\* C27: in a run in which the allocator can fail, every allocating call on
\* well-formed buffers makes no invalid access; a call that
\* reports failure leaves every buffer passed to it as it was, and a Resize
\* that reports failure leaves the caller's handle and its buffer untouched.
C27_AllocationFailureReported ==
    (nomem /\ last.op \in MemOps
           /\ (Live(last.pre) => Proper(last.pre)) /\ (Live(last.pre2) => Proper(last.pre2)))
        => /\ ~fault
           /\ (last.ret = 0 /\ Live(last.pre)) => slot[last.h] = last.pre
           /\ (last.ret = 0 /\ Live(last.pre2)) => slot[last.h2] = last.pre2

\* the calls that test the allocator's answer: Create, Duplicate and Resize
CheckedAllocations ==
    (nomem /\ last.op \in {"New", "Dup", "Resize"}
           /\ (Live(last.pre) => Proper(last.pre)))
        => C27_AllocationFailureReported

\* the allocating calls on the same buffers in a run in which the allocator
\* never fails
WhenMemoryIsGranted ==
    (~nomem /\ last.op \in MemOps
            /\ (Live(last.pre) => Proper(last.pre)) /\ (Live(last.pre2) => Proper(last.pre2)))
        => ~fault

\* the operations that return a new buffer, for which C28 claims exact fit
FitOps ==
    {"Left", "Right", "Mid", "Concat", "Insert", "Delete", "Replace",
     "ToUpper", "ToLower", "LTrim", "RTrim", "Trim"}

\* C28: every buffer returned by one of these operations on well-formed
\* buffers has a capacity equal to its length; for Concat that is the sum of
\* the lengths of the two inputs.
C28_ExactFit ==
    (last.op \in FitOps /\ ~fault /\ last.ret = 1
         /\ Proper(last.pre) /\ (last.h2 # 0 => Proper(last.pre2)))
        => /\ slot[last.res].cap = slot[last.res].len
           /\ Did("Concat") => slot[last.res].cap = last.pre.len + last.pre2.len

\* the operations whose allocation is computed as the length they record
ExactFitWhereComputed ==
    (last.op \in {"Left", "Right", "Concat", "Insert", "Replace", "ToUpper", "ToLower", "RTrim"}
         /\ ~fault /\ last.ret = 1
         /\ Proper(last.pre) /\ (last.h2 # 0 => Proper(last.pre2)))
        => C28_ExactFit

\* C29: CopyContent on a buffer that respects the data model leaves the
\* capacity unchanged when the raw text is no longer than the capacity, and
\* never reduces the capacity.
C29_CopyGrowsOnlyIfNeeded ==
    (Did("Copy") /\ ~fault /\ Sound(last.pre) /\ ~last.raw.isNull)
        => /\ strlen(last.raw) <= last.pre.cap => slot[last.h].cap = last.pre.cap
           /\ slot[last.h].cap >= last.pre.cap

\* a raw text no longer than the content it replaces leaves the capacity
CopyWithinLength ==
    (Did("Copy") /\ ~fault /\ Sound(last.pre) /\ ~last.raw.isNull
         /\ strlen(last.raw) <= last.pre.len)
        => slot[last.h].cap = last.pre.cap

\* C30: a call of Left, Right, Mid, Delete, LTrim, RTrim or Trim on a
\* well-formed buffer of length L that returns a buffer records a length of
\* at most L in it.
C30_LengthNeverGrows ==
    (last.op \in {"Left", "Right", "Mid", "Delete", "LTrim", "RTrim", "Trim"}
         /\ ~fault /\ last.ret = 1 /\ Proper(last.pre))
        => slot[last.res].len <= last.pre.len

\* C30 for the operations other than Left and Delete
LengthOfTheOtherCuts ==
    (last.op \in {"Right", "Mid", "LTrim", "RTrim", "Trim"}
         /\ ~fault /\ last.ret = 1 /\ Proper(last.pre))
        => C30_LengthNeverGrows

=============================================================================
